---- MODULE Spec2Model ----
(***************************************************************************)
(* Angluin's L* learner of jaaack-wang/Lstar_Python: the observation table *)
(* (src/Lstar.py, class ObservationTable), the driver lstar (src/Lstar.py) *)
(* and the automaton it extracts (src/DFA.py).                             *)
(*                                                                         *)
(* A Python string is a sequence of one-character symbols: "" is <<>>,     *)
(* "ab" is <<"a", "b">>.  The alphabet is an ordered container (str, list  *)
(* or tuple; a set iterates in some fixed order too), i.e. a sequence of   *)
(* symbols.  The iteration order of the Python sets S and S.A is not       *)
(* specified by the language (string hashing is randomised), so every      *)
(* place where the code depends on it is a nondeterministic choice.        *)
(***************************************************************************)
EXTENDS Integers, Sequences, FiniteSets, TLC

VARIABLES
    A,                \* self.A: the alphabet, in iteration order
    T,                \* self.T: the teacher (membership oracle)
    max_ce_len_arg,   \* argument max_ce_len of lstar (0 is None)
    max_ce_searches,  \* argument max_ce_searches of lstar
    pc,               \* position of the caller (driver or table client)
    S,                \* self.S
    SdotA,            \* self.SdotA
    E,                \* self.E (a list)
    S_rows,           \* self.S_rows: prefix -> tuple of answers
    SdotA_rows,       \* self.SdotA_rows: prefix -> tuple of answers
    SdotA_order,      \* insertion order of the keys of the dict SdotA_rows
    queried,          \* self.queried: string -> answer
    cur_ce_len,       \* self.cur_ce_len
    max_ce_len,       \* self.max_ce_len
    dfa,              \* self.dfa (NoDFA is None)
    ce,               \* the counterexample the driver holds
    op,               \* the table operation that ran last, with its result
    T_calls,          \* strings the teacher was invoked on by the last step
    compared,         \* strings the last find_counterexample compared
    steps,            \* number of table operations a free client has made
    probe             \* last DFA.next_state call: arguments and outcome

vars == <<A, T, max_ce_len_arg, max_ce_searches, pc, S, SdotA, E, S_rows,
          SdotA_rows, SdotA_order, queried, cur_ce_len, max_ce_len, dfa, ce,
          op, T_calls, compared, steps, probe>>

tableVars == <<S, SdotA, E, S_rows, SdotA_rows, SdotA_order>>
argVars == <<A, T, max_ce_len_arg, max_ce_searches>>

(***************************************************************************)
(* Bounds of the model.                                                    *)
(***************************************************************************)
MaxSearches == 12     \* largest max_ce_searches argument drawn
MaxCap == 2           \* largest explicit max_ce_len argument drawn
MaxOps == 4           \* table operations a free client makes
MaxCeArg == 1         \* longest string a free client resolves
MaxTableOps == 3      \* table repairs a client of the repairs makes
MaxTableCe == 2       \* longest string a client of the repairs resolves

(***************************************************************************)
(* Strings.                                                                *)
(***************************************************************************)
Range(seq) == {seq[i] : i \in 1..Len(seq)}

\* the member of a one-element set.  The operations below are written as
\* The({F(x) : x \in {e}}) where a value e is used several times by F: the
\* set binds the value of e once
The(set) == CHOOSE x \in set : TRUE

\* s[:i]
Prefix(s, i) == SubSeq(s, 1, IF i < Len(s) THEN i ELSE Len(s))

\* s[:-1] and s[-1] of a non-empty string
ButLast(s) == SubSeq(s, 1, Len(s) - 1)
Last(s) == s[Len(s)]

RECURSIVE Pow(_, _)
Pow(b, n) == IF n = 0 THEN 1 ELSE b * Pow(b, n - 1)

\* utils.all_words_of_length: itertools.product(alphabet, repeat=length) as a
\* list of strings, in product order: the last position varies fastest, so
\* word k (from 0) spells k in base len(alphabet)
all_words_of_length(length, alphabet) ==
    LET n == Len(alphabet)
    IN [k \in 1..Pow(n, length) |->
            [p \in 1..length |->
                alphabet[(((k - 1) \div Pow(n, length - p)) % n) + 1]]]

\* all strings of the lengths lo..hi, as a set
WordsBetween(lo, hi, alphabet) ==
    UNION {Range(all_words_of_length(n, alphabet)) : n \in lo..hi}

(***************************************************************************)
(* Teachers: the user-supplied membership oracles the model draws from.    *)
(* Each is a total, deterministic predicate over strings.                  *)
(***************************************************************************)
Count(s, c) == Cardinality({i \in 1..Len(s) : s[i] = c})

\* the finite languages come from this pool of strings
FinitePool == {<<"a", "a", "a">>, <<"a", "b", "b">>, <<"b", "a", "b">>}

Teachers ==
    {[kind |-> k, lang |-> {}] : k \in {"even_a_even_b", "ends_in_a", "len_mult_3"}}
    \cup {[kind |-> "finite", lang |-> L] : L \in SUBSET FinitePool}

Teach(t, s) ==
    CASE t.kind = "even_a_even_b" -> Count(s, "a") % 2 = 0 /\ Count(s, "b") % 2 = 0
      [] t.kind = "ends_in_a" -> Len(s) > 0 /\ Last(s) = "a"
      [] t.kind = "len_mult_3" -> Len(s) % 3 = 0
      [] t.kind = "finite" -> s \in t.lang

Alphabets == {<<"a", "b">>, <<"b", "a">>, <<"a">>}

(***************************************************************************)
(* The query cache (ObservationTable._query).  Within one table operation  *)
(* the answers are those of the cache the operation started with, extended *)
(* by the teacher's answers: the teacher is deterministic, so asking in a  *)
(* different order gives the same cache.                                   *)
(***************************************************************************)
\* the value _query(s) returns, with the cache q
query(q, s) == IF s \in DOMAIN q THEN q[s] ELSE Teach(T, s)

\* the strings _query(s) passes to the teacher, with the cache q
queryTeacherCallsAlways(q, s) == {s}
queryTeacherCalls(q, s) == IF s \in DOMAIN q THEN {} ELSE {s}

\* the cache after _query was called on every string of X
queryAll(q, X) == [x \in DOMAIN q \cup X |-> query(q, x)]

\* the teacher invocations of these calls
teacherCallsAll(q, X) == UNION {queryTeacherCalls(q, x) : x \in X}

(***************************************************************************)
(* Rows (ObservationTable._fill_row, _fill_S_rows, _fill_SdotA_rows).      *)
(* rows is one of the two defaultdict(tuple): a missing key reads as ().   *)
(***************************************************************************)
RowOf(rows, s) == IF s \in DOMAIN rows THEN rows[s] ELSE <<>>

\* E[len(row):] for the row of s
UnfilledE(rows, e, s) == SubSeq(e, Len(RowOf(rows, s)) + 1, Len(e))

\* the strings _fill_row(s, rows) asks for
fill_row_asks(rows, e, s) == {s \o x : x \in Range(UnfilledE(rows, e, s))}

\* the row of s after _fill_row(s, rows)
fill_row(rows, q, e, s) ==
    LET tail == UnfilledE(rows, e, s)
    IN RowOf(rows, s) \o [i \in 1..Len(tail) |-> query(q, s \o tail[i])]

\* rows after _fill_row(s, rows) for every s of keys
fill_rows(rows, q, e, keys) ==
    [s \in DOMAIN rows \cup keys |->
        IF s \in keys THEN fill_row(rows, q, e, s) ELSE rows[s]]

fill_rows_asks(rows, e, keys) == UNION {fill_row_asks(rows, e, s) : s \in keys}

(***************************************************************************)
(* ObservationTable.__get_max_ce_len.  The code computes                   *)
(*   x = log(a, A_size) - 1,  a = (m + 1 + A_size) * (A_size - 1) + 1      *)
(* in floating point and returns int(x) + 1 when x >= int(x) + 0.8, else   *)
(* int(x).  With j = floor(log(a)) the test x >= int(x) + 0.8 is           *)
(* a >= A_size^(j + 0.8), i.e. a^5 >= A_size^(5j + 4), in integers.        *)
(* For A_size = 1 the code evaluates the undefined name max_ce_iters.      *)
(***************************************************************************)
\* floor of the logarithm of a to base b, for a >= 1 and b >= 2
RECURSIVE FloorLog(_, _)
FloorLog(a, b) == IF a < b THEN 0 ELSE 1 + FloorLog(a \div b, b)

get_max_ce_len_raises(A_size) == A_size = 1

RoundUpAt08(a, A_size, j) == Pow(a, 5) >= Pow(A_size, 5 * j + 4)

get_max_ce_len(A_size, m) ==
    LET a_2_n_plus_1 == (m + 1 + A_size) * (A_size - 1) + 1
        j == FloorLog(a_2_n_plus_1, A_size)
    IN IF RoundUpAt08(a_2_n_plus_1, A_size, j) THEN (j - 1) + 1 ELSE j - 1

(***************************************************************************)
(* The table as one value, for the operations that change it in several    *)
(* steps.  asked collects the strings the operation passed to _query.      *)
(***************************************************************************)
Tbl == [S |-> S, SdotA |-> SdotA, E |-> E, S_rows |-> S_rows,
        SdotA_rows |-> SdotA_rows, SdotA_order |-> SdotA_order, asked |-> {}]

SetTbl(tb) ==
    /\ S' = tb.S
    /\ SdotA' = tb.SdotA
    /\ E' = tb.E
    /\ S_rows' = tb.S_rows
    /\ SdotA_rows' = tb.SdotA_rows
    /\ SdotA_order' = tb.SdotA_order

\* the dict order after a key is set: a new key goes last
KeySet(order, s) == IF s \in Range(order) THEN order ELSE Append(order, s)

\* the dict order after pop(s)
KeyPop(order, s) == SelectSeq(order, LAMBDA x : x # s)

\* function f without the key s
Without(f, s) == [x \in DOMAIN f \ {s} |-> f[x]]

\* self.S.add(s); self._fill_row(s, self.S_rows)
AddToSWithoutRow(tb, q, s) == [tb EXCEPT !.S = @ \cup {s}]
AddToS(tb, q, s) ==
    [tb EXCEPT !.S = @ \cup {s},
               !.S_rows = fill_rows(@, q, tb.E, {s}),
               !.asked = @ \cup fill_row_asks(tb.S_rows, tb.E, s)]

\* self.SdotA.remove(s); self.SdotA_rows.pop(s)
RemoveFromSdotARowOnly(tb, s) ==
    [tb EXCEPT !.SdotA_rows = Without(@, s), !.SdotA_order = KeyPop(@, s)]
RemoveFromSdotA(tb, s) ==
    [tb EXCEPT !.SdotA = @ \ {s},
               !.SdotA_rows = Without(@, s),
               !.SdotA_order = KeyPop(@, s)]

\* self.SdotA.add(s); self._fill_row(s, self.SdotA_rows)
AddToSdotA(tb, q, s) ==
    [tb EXCEPT !.SdotA = @ \cup {s},
               !.SdotA_rows = fill_rows(@, q, tb.E, {s}),
               !.SdotA_order = KeySet(@, s),
               !.asked = @ \cup fill_row_asks(tb.SdotA_rows, tb.E, s)]

(***************************************************************************)
(* ObservationTable.make_more_consistent.  The two loops run over the set  *)
(* S in its iteration order, so the pair found first is any pair of        *)
(* same-row prefixes that has a disagreement; for that pair the loops over *)
(* A and E are ordered.  An outcome is [tb, ret]: the table after the call *)
(* and the value returned.                                                 *)
(***************************************************************************)
\* a + e in the order of "for a in self.A: for e in self.E"
SymbolSuffixes(tb) ==
    LET n == Len(tb.E)
    IN [k \in 1..(Len(A) * n) |->
            <<A[((k - 1) \div n) + 1]>> \o tb.E[((k - 1) % n) + 1]]

\* s1 != s2 and row1 == row2
SameRowPairs(tb) ==
    {p \in tb.S \X tb.S :
        p[1] # p[2] /\ RowOf(tb.S_rows, p[1]) = RowOf(tb.S_rows, p[2])}

\* q1 != q2
Disagree(q, p, ae) == query(q, p[1] \o ae) # query(q, p[2] \o ae)

\* index in SymbolSuffixes of the first a + e on which the pair disagrees, or 0
FirstDisagreement(tb, q, p) ==
    LET aes == SymbolSuffixes(tb)
        hits == {i \in 1..Len(aes) : Disagree(q, p, aes[i])}
    IN IF hits = {} THEN 0 ELSE CHOOSE i \in hits : \A j \in hits : i <= j

\* the strings asked for the pair p on the first n entries of SymbolSuffixes
PairAsks(tb, p, n) ==
    LET aes == SymbolSuffixes(tb)
    IN UNION {{p[1] \o aes[i], p[2] \o aes[i]} : i \in 1..n}

\* self.E.append(ae); self._fill_S_rows(); self._fill_SdotA_rows()
AppendToEWithoutRefill(tb, q, ae) == [tb EXCEPT !.E = Append(tb.E, ae)]
AppendToE(tb, q, ae) ==
    LET e == Append(tb.E, ae)
    IN [tb EXCEPT !.E = e,
                  !.S_rows = fill_rows(@, q, e, tb.S),
                  !.SdotA_rows = fill_rows(@, q, e, tb.SdotA),
                  !.asked = @ \cup fill_rows_asks(tb.S_rows, e, tb.S)
                              \cup fill_rows_asks(tb.SdotA_rows, e, tb.SdotA)]

\* the pairs with no disagreement that the loops may have passed before the
\* pair found: they matter only through the strings they put in the cache
QuietUncachedPairs(tb, q) ==
    {p \in SameRowPairs(tb) :
        /\ FirstDisagreement(tb, q, p) = 0
        /\ PairAsks(tb, p, Len(SymbolSuffixes(tb))) \ DOMAIN q # {}}

make_more_consistent(tb, q) ==
    LET pairs == SameRowPairs(tb)
        n == Len(SymbolSuffixes(tb))
        found == {p \in pairs : FirstDisagreement(tb, q, p) # 0}
    IN IF found = {}
       THEN {[tb |-> [tb EXCEPT !.asked = UNION {PairAsks(tb, p, n) : p \in pairs}],
              ret |-> "None"]}
       ELSE {[tb |-> AppendToE(
                        [tb EXCEPT !.asked =
                            PairAsks(tb, p, FirstDisagreement(tb, q, p))
                            \cup UNION {PairAsks(tb, x, n) : x \in passed}],
                        q, SymbolSuffixes(tb)[FirstDisagreement(tb, q, p)]),
              ret |-> "True"] :
                p \in found, passed \in SUBSET QuietUncachedPairs(tb, q)}

(***************************************************************************)
(* ObservationTable.make_more_closed.  SdotA_rows.items() runs in the      *)
(* insertion order of the dict.                                            *)
(***************************************************************************)
\* S_states = set(row for row in self.S_rows.values())
S_states(tb) == {tb.S_rows[s] : s \in DOMAIN tb.S_rows}

\* positions in the dict order whose row is not in S_states
UnclosedAtEveryRow(tb) == 1..Len(tb.SdotA_order)
UnclosedAt(tb) ==
    {i \in 1..Len(tb.SdotA_order) :
        tb.SdotA_rows[tb.SdotA_order[i]] \notin S_states(tb)}

\* for a in self.A: self.SdotA.add(s+a); self._fill_row(s+a, self.SdotA_rows)
RECURSIVE AddExtensions(_, _, _, _)
AddExtensions(tb, q, s, i) ==
    IF i > Len(A) THEN tb
    ELSE The({AddExtensions(next, q, s, i + 1) :
                 next \in {AddToSdotA(tb, q, s \o <<A[i]>>)}})

\* the body of "if row not in S_states", for the prefix s
PromoteWithoutExtensions(tb, q, s) ==
    The({RemoveFromSdotA(added, s) : added \in {AddToS(tb, q, s)}})
Promote(tb, q, s) ==
    The({AddExtensions(RemoveFromSdotA(added, s), q, s, 1) :
            added \in {AddToS(tb, q, s)}})

make_more_closed(tb, q) ==
    LET open == UnclosedAt(tb)
    IN IF open = {}
       THEN {[tb |-> tb, ret |-> "None"]}
       ELSE LET first == CHOOSE i \in open : \A j \in open : i <= j
            IN {[tb |-> Promote(tb, q, tb.SdotA_order[first]), ret |-> "True"]}

(***************************************************************************)
(* ObservationTable.resolve_counterexample.                                *)
(***************************************************************************)
\* for a in self.A: sa = prefix+a; if sa not in self.S: add it to SdotA
AddNoExtensions(tb, q, s, i) == tb
RECURSIVE AddNewExtensions(_, _, _, _)
AddNewExtensions(tb, q, s, i) ==
    IF i > Len(A) THEN tb
    ELSE LET sa == s \o <<A[i]>>
         IN The({AddNewExtensions(next, q, s, i + 1) :
                    next \in {IF sa \notin tb.S
                               THEN AddToSdotA(tb, q, sa) ELSE tb}})

\* the body of "if prefix not in self.S"
AddPrefix(tb, q, prefix) ==
    The({AddNewExtensions(moved, q, prefix, 1) :
            moved \in {IF prefix \in added.SdotA
                        THEN RemoveFromSdotA(added, prefix) ELSE added :
                            added \in {AddToS(tb, q, prefix)}}})

\* for i in range(len(ce)+1, 0, -1), from the iteration i on
ResolveWholeOnly(tb, q, c, i) ==
    IF c \notin tb.S THEN AddPrefix(tb, q, c) ELSE tb
RECURSIVE ResolveFrom(_, _, _, _)
ResolveFrom(tb, q, c, i) ==
    IF i <= 0 THEN tb
    ELSE LET prefix == Prefix(c, i)
         IN The({ResolveFrom(next, q, c, i - 1) :
                    next \in {IF prefix \notin tb.S
                               THEN AddPrefix(tb, q, prefix) ELSE tb}})

resolve_counterexample_adds_nothing(tb, q, c) ==
    {[tb |-> tb, ret |-> "None"]}
resolve_counterexample(tb, q, c) ==
    {[tb |-> ResolveFrom(tb, q, c, Len(c) + 1), ret |-> "None"]}

(***************************************************************************)
(* The automaton (src/DFA.py).  A DFA is [A, q0, F, Q, d]; a state is a    *)
(* string; d is the nested dict {q: {a: next_q}} keyed by state and then   *)
(* by symbol.  Raised stands for an exception leaving the call.            *)
(***************************************************************************)
\* the name u"λ" of the initial state
lambda == <<"lambda">>

Raised == <<"raise">>

NoDFA == [A |-> <<>>, q0 |-> <<>>, F |-> {}, Q |-> {}, d |-> <<>>]

\* "a in self.A" for the string a and an alphabet that is a list or a tuple
\* (for a str alphabet a multi-symbol substring passes this test, and the
\* lookup self.d[q][a] raises KeyError instead)
InAlphabet(alphabet, a) == \E i \in 1..Len(alphabet) : <<alphabet[i]>> = a

\* DFA.next_state(q, a), a any string
next_state(m, q, a) ==
    IF a = <<>> THEN q
    ELSE IF q \notin m.Q THEN Raised
    ELSE IF ~InAlphabet(m.A, a) THEN Raised
    ELSE IF q \notin DOMAIN m.d THEN Raised
    ELSE IF a[1] \notin DOMAIN m.d[q] THEN Raised
    ELSE m.d[q][a[1]]

is_final_initial_only(m, q) == q = m.q0
is_final(m, q) == q \in m.F

\* the loop "for sym in string: q = self.next_state(q, sym)"
RECURSIVE RunFrom(_, _, _)
RunFrom(m, q, string) ==
    IF string = <<>> THEN q
    ELSE The({IF n = Raised THEN Raised ELSE RunFrom(m, n, Tail(string)) :
                 n \in {next_state(m, q, <<Head(string)>>)}})

recognize_raises(m, string) == RunFrom(m, m.q0, string) = Raised

\* DFA.recognize(string), when it does not raise
recognize(m, string) == is_final(m, RunFrom(m, m.q0, string))

(***************************************************************************)
(* ObservationTable._make_row_to_state_map and to_dfa.                     *)
(* sorted(self.S, key=len) is stable: prefixes of one length keep the      *)
(* iteration order of the set S, so among the shortest prefixes of a row   *)
(* any one may name the state.                                             *)
(***************************************************************************)
\* the prefixes that can come first with this row in sorted(self.S, key=len)[1:]
AnyWithRow(tb, row) ==
    {s \in tb.S \ {<<>>} : RowOf(tb.S_rows, s) = row}
FirstWithRow(tb, row) ==
    LET same == {s \in tb.S \ {<<>>} : RowOf(tb.S_rows, s) = row}
    IN {s \in same : \A x \in same : Len(s) <= Len(x)}

RECURSIVE NameRows(_, _, _)
NameRows(tb, rows, map) ==
    IF rows = {} THEN {map}
    ELSE LET row == CHOOSE r \in rows : TRUE
         IN UNION {NameRows(tb, rows \ {row}, map @@ (row :> s)) :
                      s \in FirstWithRow(tb, row)}

\* every map _make_row_to_state_map can return
make_row_to_state_map(tb) ==
    LET init == RowOf(tb.S_rows, <<>>)
    IN NameRows(tb, {RowOf(tb.S_rows, s) : s \in tb.S \ {<<>>}} \ {init},
                init :> lambda)

\* table = self.S_rows.copy(); table.update(self.SdotA_rows)
MergedRows(tb) ==
    [s \in DOMAIN tb.S_rows \cup DOMAIN tb.SdotA_rows |->
        IF s \in DOMAIN tb.SdotA_rows THEN tb.SdotA_rows[s] ELSE tb.S_rows[s]]

\* sorted(table.keys(), key=len)[1:]
NonEmptyKeys(tb) == DOMAIN MergedRows(tb) \ {<<>>}

\* the lookups of to_dfa that raise KeyError, and its assertion
to_dfa_raises(tb, q) ==
    LET table == MergedRows(tb)
        named == {RowOf(tb.S_rows, s) : s \in tb.S}
    IN \/ \E s \in NonEmptyKeys(tb) :
            \/ RowOf(table, ButLast(s)) \notin named
            \/ table[s] \notin named
            \/ ButLast(s) \notin DOMAIN q
            \/ s \notin DOMAIN q
       \/ \E s1, s2 \in NonEmptyKeys(tb) :
            /\ RowOf(table, ButLast(s1)) = RowOf(table, ButLast(s2))
            /\ Last(s1) = Last(s2)
            /\ table[s1] # table[s2]

\* the DFA to_dfa returns with the row-to-state map rts, when it does not raise
to_dfa(tb, q, rts) ==
    LET table == MergedRows(tb)
        keys == NonEmptyKeys(tb)
        prev_q(s) == rts[table[ButLast(s)]]
        cur_q(s) == rts[table[s]]
        sources == {prev_q(s) : s \in keys}
        delta == [p \in sources |->
                    [a \in {Last(s) : s \in {x \in keys : prev_q(x) = p}} |->
                        cur_q(CHOOSE s \in keys : prev_q(s) = p /\ Last(s) = a)]]
        states == sources \cup {cur_q(s) : s \in keys}
        final_states == {prev_q(s) : s \in {x \in keys : q[ButLast(x)]}}
                        \cup {cur_q(s) : s \in {x \in keys : q[x]}}
    IN [A |-> A, q0 |-> rts[tb.S_rows[<<>>]], F |-> final_states,
        Q |-> states, d |-> delta]

(***************************************************************************)
(* ObservationTable.find_counterexample.  The search starts at the length  *)
(* self.cur_ce_len, which __init__ sets to 2 and no call resets.           *)
(***************************************************************************)
\* the length the while loop of a call starts at
SearchStart(cur) == cur

\* the strings of the lengths lo..hi in the order the loops enumerate them
RECURSIVE WordsInOrder(_, _)
WordsInOrder(lo, hi) ==
    IF lo > hi THEN <<>>
    ELSE all_words_of_length(lo, A) \o WordsInOrder(lo + 1, hi)

SearchList(cur, max) == WordsInOrder(SearchStart(cur), max)

\* pred != true
MismatchAlways(m, t) == TRUE
Mismatch(m, t) == recognize(m, t) # Teach(T, t)

\* index in list of the first string on which recognize raises or the
\* candidate m and the teacher differ, or 0
FirstStop(m, list) ==
    LET stops == {i \in 1..Len(list) :
                     recognize_raises(m, list[i]) \/ Mismatch(m, list[i])}
    IN IF stops = {} THEN 0 ELSE CHOOSE i \in stops : \A j \in stops : i <= j

\* the while loop of find_counterexample with the candidate m
Search(m, list, first, cur, max) ==
    IF first = 0
    THEN [dfa |-> m, ret |-> "None", ce |-> <<>>,
          cur |-> IF SearchStart(cur) > max THEN cur ELSE max + 1,
          compared |-> list]
    ELSE IF recognize_raises(m, list[first])
    THEN [dfa |-> m, ret |-> "raise", ce |-> <<>>,
          cur |-> Len(list[first]), compared |-> SubSeq(list, 1, first)]
    ELSE [dfa |-> m, ret |-> "ce", ce |-> list[first],
          cur |-> Len(list[first]), compared |-> SubSeq(list, 1, first)]

\* outcomes [dfa, ret, ce, cur, compared] of find_counterexample
find_counterexample(tb, q, cur, max) ==
    IF to_dfa_raises(tb, q)
    THEN {[dfa |-> dfa, ret |-> "raise", ce |-> <<>>, cur |-> cur, compared |-> <<>>]}
    ELSE UNION {{Search(m, list, first, cur, max) :
                    first \in {FirstStop(m, list)}} :
                        m \in {to_dfa(tb, q, rts) : rts \in make_row_to_state_map(tb)},
                        list \in {SearchList(cur, max)}}

(***************************************************************************)
(* Construction (ObservationTable.__init__) and the initial states.        *)
(***************************************************************************)
NoOp == [name |-> "none", ret |-> "None"]
NoProbe == [q |-> <<>>, a |-> <<>>, result |-> <<>>, called |-> FALSE]

\* the state before the table exists, with the arguments given
Unbuilt ==
    /\ S = {} /\ SdotA = {} /\ E = <<>>
    /\ S_rows = <<>> /\ SdotA_rows = <<>> /\ SdotA_order = <<>>
    /\ queried = <<>> /\ cur_ce_len = 0 /\ max_ce_len = 0
    /\ dfa = NoDFA /\ ce = <<>> /\ op = NoOp /\ T_calls = {}
    /\ compared = <<>> /\ steps = 0 /\ probe = NoProbe

Init ==
    /\ A \in Alphabets
    /\ T \in Teachers
    /\ max_ce_len_arg \in 0..MaxCap
    /\ max_ce_searches \in 0..MaxSearches
    /\ pc = "start"
    /\ Unbuilt

\* the orders in which the set built from seq can iterate
Orders(seq) ==
    {p \in [1..Len(seq) -> Range(seq)] :
        \A i, j \in 1..Len(seq) : i # j => p[i] # p[j]}

\* self.S = {""}; self.SdotA = set(alphabet); self.E = [""] and the two fills,
\* the second in the iteration order of the set SdotA
InitialTable(order) ==
    LET empty == [S |-> {<<>>}, SdotA |-> {<<a>> : a \in Range(A)},
                  E |-> << <<>> >>, S_rows |-> <<>>, SdotA_rows |-> <<>>,
                  SdotA_order |-> [i \in 1..Len(order) |-> <<order[i]>>],
                  asked |-> {}]
    IN [empty EXCEPT
            !.S_rows = fill_rows(@, <<>>, empty.E, empty.S),
            !.SdotA_rows = fill_rows(@, <<>>, empty.E, empty.SdotA),
            !.asked = fill_rows_asks(<<>>, empty.E, empty.S \cup empty.SdotA)]

\* "if max_ce_len and max_ce_len < self.max_ce_len"
CappedLen(arg, computed) == IF arg # 0 /\ arg < computed THEN arg ELSE computed

\* ObservationTable(alphabet, teacher, max_ce_len, max_ce_searches); the caller
\* goes on at next when the constructor returns
Construct(next) ==
    /\ pc = "start"
    /\ \E order \in Orders(A) :
        LET tb == InitialTable(order)
        IN IF get_max_ce_len_raises(Len(A))
           THEN /\ pc' = "raised"
                /\ T_calls' = teacherCallsAll(<<>>, tb.asked)
                /\ op' = [name |-> "__init__", ret |-> "raise"]
                /\ UNCHANGED <<tableVars, queried, cur_ce_len, max_ce_len>>
           ELSE /\ pc' = next
                /\ SetTbl(tb)
                /\ queried' = queryAll(<<>>, tb.asked)
                /\ T_calls' = teacherCallsAll(<<>>, tb.asked)
                /\ op' = [name |-> "__init__", ret |-> "None"]
                /\ cur_ce_len' = 2
                /\ max_ce_len' = CappedLen(max_ce_len_arg,
                                    get_max_ce_len(Len(A), max_ce_searches))
    /\ UNCHANGED <<argVars, dfa, ce, compared, steps, probe>>

(***************************************************************************)
(* The effect of one table operation on the state.                         *)
(***************************************************************************)
\* a call of make_more_consistent, make_more_closed or resolve_counterexample
\* with the outcome r
TableCall(name, r) ==
    /\ SetTbl(r.tb)
    /\ queried' = queryAll(queried, r.tb.asked)
    /\ T_calls' = teacherCallsAll(queried, r.tb.asked)
    /\ op' = [name |-> name, ret |-> r.ret]
    /\ UNCHANGED <<argVars, cur_ce_len, max_ce_len, dfa, compared, probe>>

\* a call of find_counterexample with the outcome r: the teacher is called
\* directly (self.T(t)) on every string compared
FindCall(r) ==
    /\ dfa' = r.dfa
    /\ cur_ce_len' = r.cur
    /\ compared' = r.compared
    /\ T_calls' = Range(r.compared)
    /\ op' = [name |-> "find_counterexample", ret |-> r.ret]
    /\ UNCHANGED <<argVars, tableVars, queried, max_ce_len, probe>>

(***************************************************************************)
(* The driver lstar.  pc is the call the driver makes next.                *)
(***************************************************************************)
lstar_construct == Construct("consistent")

\* while table.make_more_consistent(): pass
lstar_consistent ==
    /\ pc = "consistent"
    /\ \E r \in make_more_consistent(Tbl, queried) :
        /\ TableCall("make_more_consistent", r)
        /\ pc' = IF r.ret = "True" THEN "consistent" ELSE "closed"
    /\ UNCHANGED <<ce, steps>>

\* the driver after make_more_closed returned ret: continue or break
AfterClosedAlwaysBreaks(ret) == "find"
AfterClosed(ret) == IF ret = "True" THEN "consistent" ELSE "find"

\* if table.make_more_closed(): continue / else: break
lstar_closed ==
    /\ pc = "closed"
    /\ \E r \in make_more_closed(Tbl, queried) :
        /\ TableCall("make_more_closed", r)
        /\ pc' = AfterClosed(r.ret)
    /\ UNCHANGED <<ce, steps>>

\* ce = table.find_counterexample(); if ce is None: return table
lstar_find ==
    /\ pc = "find"
    /\ \E r \in find_counterexample(Tbl, queried, cur_ce_len, max_ce_len) :
        /\ FindCall(r)
        /\ ce' = r.ce
        /\ pc' = CASE r.ret = "raise" -> "raised"
                   [] r.ret = "None" -> "Done"
                   [] r.ret = "ce" -> "resolve"
    /\ UNCHANGED steps

\* table.resolve_counterexample(ce)
lstar_resolve ==
    /\ pc = "resolve"
    /\ \E r \in resolve_counterexample(Tbl, queried, ce) :
        /\ TableCall("resolve_counterexample", r)
        /\ pc' = "consistent"
    /\ UNCHANGED <<ce, steps>>

Next ==
    \/ lstar_construct
    \/ lstar_consistent
    \/ lstar_closed
    \/ lstar_find
    \/ lstar_resolve

Spec == Init /\ [][Next]_vars

\* lstar called with max_ce_len=None and the largest budget drawn
InitDefaultCap ==
    /\ A \in Alphabets
    /\ T \in Teachers
    /\ max_ce_len_arg = 0
    /\ max_ce_searches = MaxSearches
    /\ pc = "start"
    /\ Unbuilt

\* the driver runs on: a call that can be made is made
SpecFair == InitDefaultCap /\ [][Next]_vars /\ WF_vars(Next)

(***************************************************************************)
(* A client of the table that calls its public operations in any order,    *)
(* resolving any string as a counterexample.                               *)
(***************************************************************************)
InitClient == InitDefaultCap

client_construct == Construct("client")

ClientStep ==
    /\ pc = "client"
    /\ steps < MaxOps
    /\ steps' = steps + 1

client_consistent ==
    /\ ClientStep
    /\ \E r \in make_more_consistent(Tbl, queried) :
        TableCall("make_more_consistent", r)
    /\ UNCHANGED <<pc, ce>>

client_closed ==
    /\ ClientStep
    /\ \E r \in make_more_closed(Tbl, queried) :
        TableCall("make_more_closed", r)
    /\ UNCHANGED <<pc, ce>>

client_find ==
    /\ ClientStep
    /\ \E r \in find_counterexample(Tbl, queried, cur_ce_len, max_ce_len) :
        /\ FindCall(r)
        /\ ce' = r.ce
        /\ pc' = IF r.ret = "raise" THEN "raised" ELSE "client"

client_resolve ==
    /\ ClientStep
    /\ \E c \in WordsBetween(1, MaxCeArg, A) :
        \E r \in resolve_counterexample(Tbl, queried, c) :
            TableCall("resolve_counterexample", r)
    /\ UNCHANGED <<pc, ce>>

NextClient ==
    \/ client_construct
    \/ client_consistent
    \/ client_closed
    \/ client_find
    \/ client_resolve

SpecClient == InitClient /\ [][NextClient]_vars

(***************************************************************************)
(* A client of an automaton that calls next_state with any state and any   *)
(* string for the symbol.                                                  *)
(***************************************************************************)
\* the example of the class docstring: even numbers of a and b
DocstringDFA ==
    [A |-> <<"a", "b">>, q0 |-> lambda, F |-> {lambda},
     Q |-> {lambda, <<"a">>, <<"b">>, <<"a", "b">>},
     d |-> (lambda :> [a |-> <<"a">>, b |-> <<"b">>])
           @@ (<<"a">> :> [a |-> lambda, b |-> <<"a", "b">>])
           @@ (<<"b">> :> [a |-> <<"a", "b">>, b |-> lambda])
           @@ (<<"a", "b">> :> [a |-> <<"b">>, b |-> <<"a">>])]

\* every total automaton over "ab" with the states lambda and a
TwoStateDFAs ==
    LET Q == {lambda, <<"a">>}
    IN {[A |-> <<"a", "b">>, q0 |-> lambda, F |-> F, Q |-> Q, d |-> d] :
            F \in SUBSET Q, d \in [Q -> [{"a", "b"} -> Q]]}

\* the states and the strings a client passes: declared and undeclared ones
ProbeStates == {lambda, <<"a">>, <<"b">>, <<"a", "b">>, <<"b", "a">>, <<>>}
ProbeSymbols == {<<>>, <<"a">>, <<"b">>, <<"c">>, <<"a", "b">>}

InitDFA ==
    /\ dfa \in {DocstringDFA} \cup TwoStateDFAs
    /\ A = dfa.A
    /\ T = [kind |-> "finite", lang |-> {}]
    /\ max_ce_len_arg = 0
    /\ max_ce_searches = 0
    /\ pc = "dfa_client"
    /\ S = {} /\ SdotA = {} /\ E = <<>>
    /\ S_rows = <<>> /\ SdotA_rows = <<>> /\ SdotA_order = <<>>
    /\ queried = <<>> /\ cur_ce_len = 0 /\ max_ce_len = 0
    /\ ce = <<>> /\ op = NoOp /\ T_calls = {}
    /\ compared = <<>> /\ steps = 0 /\ probe = NoProbe

dfa_next_state ==
    /\ pc = "dfa_client"
    /\ \E q \in ProbeStates, a \in ProbeSymbols :
        probe' = [q |-> q, a |-> a, result |-> next_state(dfa, q, a),
                  called |-> TRUE]
    /\ UNCHANGED <<argVars, tableVars, pc, queried, cur_ce_len, max_ce_len,
                   dfa, ce, op, T_calls, compared, steps>>

NextDFA == dfa_next_state

SpecDFA == InitDFA /\ [][NextDFA]_vars

(***************************************************************************)
(* Properties.                                                             *)
(***************************************************************************)
Built == pc \notin {"start", "raised", "dfa_client"}

\* make_more_closed would report no fix
IsClosed(tb) == UnclosedAt(tb) = {}

\* make_more_consistent would report no fix
IsConsistent(tb, q) ==
    \A p \in SameRowPairs(tb) : FirstDisagreement(tb, q, p) = 0

\* the automaton m agrees with the teacher on the string s
Agrees(m, s) == ~recognize_raises(m, s) /\ recognize(m, s) = Teach(T, s)

Accepts(m, s) == ~recognize_raises(m, s) /\ recognize(m, s)
Rejects(m, s) == ~recognize_raises(m, s) /\ ~recognize(m, s)

\* C1: when lstar has returned, table.dfa agrees with the teacher on every
\* string of length 0..max_ce_len.
C1_DoneAgreesWithinBound ==
    pc = "Done" => \A s \in WordsBetween(0, max_ce_len, A) : Agrees(dfa, s)

\* C2: the driver reaches Done: both loops terminate.
C2_DriverTerminates == <>(pc = "Done")

\* the same for the alphabets of two symbols, for which the constructor returns
TerminatesForTwoSymbols == (Len(A) = 2) ~> (pc = "Done")

\* the automaton m is total and deterministic over the alphabet
TotalDFA(m) ==
    /\ m.q0 \in m.Q
    /\ \A q \in m.Q :
        /\ q \in DOMAIN m.d
        /\ DOMAIN m.d[q] = Range(A)
        /\ \A a \in Range(A) : m.d[q][a] \in m.Q

\* C3: for every closed and consistent table the table operations reach,
\* to_dfa returns (no lookup and no assertion fails) and what it returns has
\* its initial state in the state set and, for every state and symbol, one
\* successor, which is in the state set.
C3_ExtractionTotal ==
    (Built /\ IsClosed(Tbl) /\ IsConsistent(Tbl, queried)) =>
        /\ ~to_dfa_raises(Tbl, queried)
        /\ \A rts \in make_row_to_state_map(Tbl) :
              TotalDFA(to_dfa(Tbl, queried, rts))

\* a closed and consistent table with three row classes, just extracted
C3_Witness ==
    /\ pc = "client"
    /\ op.name = "find_counterexample" /\ op.ret # "raise"
    /\ IsClosed(Tbl) /\ IsConsistent(Tbl, queried)
    /\ Cardinality(dfa.Q) >= 3

\* C4: with the alphabet "a" and the teacher "length is a multiple of 3" the
\* table is constructed and the driver ends with 3 states, accepting aaa and
\* aaaaaa, rejecting a and aa.
C4_SingleSymbolLearned ==
    (A = <<"a">> /\ T.kind = "len_mult_3") =>
        /\ pc # "raised"
        /\ pc = "Done" =>
            /\ Cardinality(dfa.Q) = 3
            /\ Accepts(dfa, <<"a", "a", "a">>)
            /\ Accepts(dfa, <<"a", "a", "a", "a", "a", "a">>)
            /\ Rejects(dfa, <<"a">>)
            /\ Rejects(dfa, <<"a", "a">>)

Scenario1 == Len(A) = 2 /\ T.kind = "even_a_even_b"

Scenario1Learned ==
    /\ pc = "Done"
    /\ Cardinality(dfa.Q) = 4
    /\ Accepts(dfa, <<>>)
    /\ Accepts(dfa, <<"a", "a", "b", "b">>)
    /\ Accepts(dfa, <<"a", "b", "a", "b">>)
    /\ Rejects(dfa, <<"a">>)
    /\ Rejects(dfa, <<"a", "a", "b">>)

\* C5: with the alphabet {a, b} and the teacher "even number of a's and even
\* number of b's" the driver, called with the default arguments (a search
\* bound of at least 3; the default budget gives 15), reaches Done with 4
\* states, accepting "", aabb, abab and rejecting a, aab.
C5_EvenEvenLearned ==
    (Scenario1 /\ pc = "consistent" /\ max_ce_len >= 3) ~> Scenario1Learned

C5_Witness == Scenario1 /\ max_ce_len >= 3 /\ Scenario1Learned

\* the strings of the lengths 2..max_ce_len in enumeration order
FullSearchList == WordsInOrder(2, max_ce_len)

\* C6: every call of find_counterexample compares the candidate with the
\* teacher on the strings of the lengths 2..max_ce_len in order, up to the
\* first disagreement, which it returns; it returns none only if the
\* candidate disagrees on no string of these lengths.
C6_SearchesFromLengthTwo ==
    (op.name = "find_counterexample" /\ op.ret # "raise") =>
        LET list == FullSearchList
            bad == {i \in 1..Len(list) : ~Agrees(dfa, list[i])}
            first == IF bad = {} THEN 0
                     ELSE CHOOSE i \in bad : \A j \in bad : i <= j
        IN IF first = 0
           THEN op.ret = "None" /\ compared = list
           ELSE op.ret = "ce" /\ ce = list[first]
                /\ compared = SubSeq(list, 1, first)

CacheGrows ==
    /\ Cardinality(DOMAIN queried') >= Cardinality(DOMAIN queried)
    /\ \A x \in DOMAIN queried : x \in DOMAIN queried' /\ queried'[x] = queried[x]

\* C7 as claimed: the number of cached queries never decreases, a cached
\* answer never changes, and no step invokes the teacher on a string that is
\* in the cache.
C7_NeverAsksCached ==
    [][CacheGrows /\ T_calls' \cap DOMAIN queried = {}]_vars

\* C7: the number of cached queries never decreases and a cached answer never
\* changes; the operations that go through _query (construction, filling,
\* both repairs, resolving a counterexample) never invoke the teacher on a
\* cached string; find_counterexample calls the teacher directly and leaves
\* the cache as it is.
C7_QueryAsksUncachedOnly ==
    [][/\ CacheGrows
       /\ op'.name # "find_counterexample" => T_calls' \cap DOMAIN queried = {}
       /\ op'.name = "find_counterexample" => queried' = queried]_vars

\* find_counterexample has called the teacher on a cached string
C7_Witness ==
    /\ op.name = "find_counterexample"
    /\ T_calls \cap DOMAIN queried # {}
    /\ Cardinality(DOMAIN queried) > 3

\* C8: next_state(q, a) raises when q is not a declared state or a is not a
\* symbol of the alphabet, and returns delta[q][a] otherwise.
C8_NextStateChecksArguments ==
    probe.called =>
        IF probe.q \notin dfa.Q \/ ~InAlphabet(dfa.A, probe.a)
        THEN probe.result = Raised
        ELSE probe.result = dfa.d[probe.q][probe.a[1]]

Refining == {"consistent", "closed"}
Testing == {"find", "resolve"}

\* the driver's steps
DriverStep ==
    /\ pc = "start" => pc' \in {"consistent", "raised"}
    /\ pc \in Refining => pc' \in Refining \cup {"find"}
    /\ (pc = "consistent" /\ pc' = "closed") => UNCHANGED tableVars
    /\ pc' = "find" => (pc = "closed" /\ UNCHANGED tableVars)
    /\ pc = "find" => pc' \in {"resolve", "Done"}
    /\ pc = "resolve" =>
          (pc' = "consistent" /\ op'.name = "resolve_counterexample")
    /\ pc \in {"Done", "raised"} => pc' = pc

\* C9: the driver enters Testing only with a closed and consistent table,
\* after make_more_consistent and then make_more_closed reported no fix with
\* the table unchanged in between; to_dfa never raises in the driver; the
\* driver steps only Refining -> Refining, Refining -> Testing, Testing ->
\* Refining (through resolve_counterexample) and Testing -> Done.
C9_TestingOnlyClosedConsistent ==
    /\ [](pc = "closed" => op = [name |-> "make_more_consistent", ret |-> "None"])
    /\ [](pc = "find" =>
            /\ op = [name |-> "make_more_closed", ret |-> "None"]
            /\ IsClosed(Tbl) /\ IsConsistent(Tbl, queried)
            /\ ~to_dfa_raises(Tbl, queried))
    /\ [](pc = "raised" => op.name = "__init__")
    /\ [][DriverStep]_vars

\* the driver enters Testing again, after a counterexample was resolved
C9_Witness ==
    /\ pc = "find"
    /\ dfa # NoDFA
    /\ Cardinality(S) >= 3
    /\ IsClosed(Tbl) /\ IsConsistent(Tbl, queried)

\* k^2 + ... + k^n
RECURSIVE SumOfPowers(_, _)
SumOfPowers(k, n) == IF n < 2 THEN 0 ELSE Pow(k, n) + SumOfPowers(k, n - 1)

\* C10: for an alphabet of k >= 2 symbols and the budget B the maximum length
\* n computed at construction has k^2 + ... + k^n <= B.
C10_SearchWithinBudget ==
    (Built /\ Len(A) >= 2 /\ max_ce_len_arg = 0) =>
        SumOfPowers(Len(A), max_ce_len) <= max_ce_searches

(***************************************************************************)
(* The names of the states (C11).                                          *)
(***************************************************************************)
\* the automaton of the state was extracted from the table of the state
JustExtracted == op.name = "find_counterexample" /\ op.ret # "raise"

\* the prefixes of S, other than the empty one, with the row of q
SameRowInS(q) ==
    {s \in S \ {<<>>} : RowOf(S_rows, s) = RowOf(S_rows, q)}

\* Python's s <= t for strings over the symbols a < b
RECURSIVE LexLeq(_, _)
LexLeq(s, t) ==
    IF s = <<>> THEN TRUE
    ELSE IF t = <<>> THEN FALSE
    ELSE IF s[1] # t[1] THEN s[1] = "a"
    ELSE LexLeq(Tail(s), Tail(t))

\* the initial state is the class of the empty prefix and every other state
\* bears the name of a shortest prefix of S with its row
NamedByShortest ==
    /\ dfa.q0 = lambda
    /\ \A q \in dfa.Q \ {lambda} :
        /\ q \in S \ {<<>>}
        /\ RowOf(S_rows, q) # RowOf(S_rows, <<>>)
        /\ \A s \in SameRowInS(q) : Len(q) <= Len(s)

\* C11 as claimed: the class of the empty prefix is the initial state and
\* every other state is named by the shortest prefix of S with its row and,
\* among the prefixes of that length, by the lexicographically earliest.
C11_NamedByShortestThenEarliest ==
    JustExtracted =>
        /\ NamedByShortest
        /\ \A q \in dfa.Q \ {lambda} :
            \A s \in SameRowInS(q) : Len(s) = Len(q) => LexLeq(q, s)

\* C11: the class of the empty prefix is the initial state and every other
\* state is named by a shortest prefix of S with its row; which of the
\* prefixes of that length names it follows the iteration order of the set S.
C11_NamedByAShortest == JustExtracted => NamedByShortest

\* a state named by a prefix that shares its row with another prefix of its
\* own length, and a state that shares its row with a longer prefix
C11_Witness ==
    /\ JustExtracted
    /\ \E q \in dfa.Q \ {lambda} :
        \E s \in SameRowInS(q) : Len(s) = Len(q) /\ s # q
    /\ \E q \in dfa.Q \ {lambda} :
        \E s \in SameRowInS(q) : Len(s) > Len(q)

(***************************************************************************)
(* A client of the table that calls the three operations that change the   *)
(* table (make_more_consistent, make_more_closed, resolve_counterexample)  *)
(* in any order, resolving any string, over an alphabet of two symbols.    *)
(***************************************************************************)
\* the teachers of this client: the named ones and the whole finite pool
TableTeachers == {t \in Teachers : t.kind = "finite" => t.lang = FinitePool}

InitTableClient ==
    /\ A \in {a \in Alphabets : Len(a) = 2}
    /\ T \in TableTeachers
    /\ max_ce_len_arg = 0
    /\ max_ce_searches = MaxSearches
    /\ pc = "start"
    /\ Unbuilt

table_construct == Construct("table")

TableStep ==
    /\ pc = "table"
    /\ steps < MaxTableOps
    /\ steps' = steps + 1

table_consistent ==
    /\ TableStep
    /\ \E r \in make_more_consistent(Tbl, queried) :
        TableCall("make_more_consistent", r)
    /\ UNCHANGED <<pc, ce>>

table_closed ==
    /\ TableStep
    /\ \E r \in make_more_closed(Tbl, queried) :
        TableCall("make_more_closed", r)
    /\ UNCHANGED <<pc, ce>>

table_resolve ==
    /\ TableStep
    /\ \E c \in WordsBetween(1, MaxTableCe, A) :
        /\ \E r \in resolve_counterexample(Tbl, queried, c) :
            TableCall("resolve_counterexample", r)
        /\ ce' = c
    /\ UNCHANGED pc

NextTableClient ==
    \/ table_construct
    \/ table_consistent
    \/ table_closed
    \/ table_resolve

SpecTable == InitTableClient /\ [][NextTableClient]_vars

(***************************************************************************)
(* The effect of make_more_closed (C12).                                   *)
(***************************************************************************)
\* the rows of the S prefixes
RowsOfS == {RowOf(S_rows, s) : s \in S}

\* the S.A prefixes whose row is the row of no S prefix
OpenPrefixes == {s \in SdotA : RowOf(SdotA_rows, s) \notin RowsOfS}

\* s + a for every symbol a
Extensions(s) == {s \o <<A[i]>> : i \in 1..Len(A)}

\* the row p has in the next state is filled with the teacher's answers
FilledNext(rows, p) ==
    /\ p \in DOMAIN rows
    /\ Len(rows[p]) = Len(E')
    /\ \A i \in 1..Len(E') : rows[p][i] = Teach(T, p \o E'[i])

\* the call moved s from S.A to S and added the extensions of s to S.A
Promoted(s) ==
    /\ S' = S \cup {s}
    /\ SdotA' = (SdotA \ {s}) \cup Extensions(s)
    /\ E' = E
    /\ \A x \in S : S_rows'[x] = S_rows[x]
    /\ \A x \in SdotA \ {s} : SdotA_rows'[x] = SdotA_rows[x]
    /\ S_rows'[s] = SdotA_rows[s]
    /\ \A x \in Extensions(s) : FilledNext(SdotA_rows', x)

\* C12: make_more_closed returns True exactly when some S.A row is the row
\* of no S prefix; it then moves one such prefix from S.A to S and adds its
\* one-symbol extensions to S.A with filled rows, and leaves E, the other
\* members of S and S.A and the rows there were unchanged.  Otherwise it
\* returns None and leaves S, S.A, E and the rows unchanged.
C12_ClosedRepairsOneRow ==
    [][op'.name = "make_more_closed" =>
        IF OpenPrefixes # {}
        THEN op'.ret = "True" /\ \E s \in OpenPrefixes : Promoted(s)
        ELSE op'.ret = "None"
             /\ UNCHANGED <<S, SdotA, E, S_rows, SdotA_rows>>]_vars

\* a prefix was promoted into an S that has other prefixes than the empty one
C12_Witness ==
    /\ op = [name |-> "make_more_closed", ret |-> "True"]
    /\ Cardinality(S) >= 3
    /\ Cardinality(SdotA) >= 3
    /\ Len(E) >= 2

(***************************************************************************)
(* The effect of make_more_consistent (C13).                               *)
(***************************************************************************)
\* <<s1, s2, a + e>>: two prefixes of S with equal rows and a symbol a and a
\* suffix e of E such that the teacher tells s1 + a + e from s2 + a + e
Inconsistencies ==
    {x \in S \X S \X {<<A[i]>> \o E[j] : i \in 1..Len(A), j \in 1..Len(E)} :
        /\ x[1] # x[2]
        /\ RowOf(S_rows, x[1]) = RowOf(S_rows, x[2])
        /\ Teach(T, x[1] \o x[3]) # Teach(T, x[2] \o x[3])}

\* the keys of the rows are those there were and every row is filled
AllRowsFilledNext ==
    /\ DOMAIN S_rows' = DOMAIN S_rows
    /\ DOMAIN SdotA_rows' = DOMAIN SdotA_rows
    /\ \A p \in S' : FilledNext(S_rows', p)
    /\ \A p \in SdotA' : FilledNext(SdotA_rows', p)

NoDuplicates(seq) == \A i, j \in 1..Len(seq) : seq[i] = seq[j] => i = j

\* C13: make_more_consistent returns True exactly when two prefixes of S
\* with equal rows are told apart by the teacher on some a + e; it then
\* appends one such a + e, which was not in E, to the end of E, leaves S and
\* S.A unchanged and refills every row to the length of E.  Otherwise it
\* returns None, changes nothing and does not invoke the teacher.  In every
\* step E is kept or grows by one appended suffix, starts with the empty
\* suffix and has no duplicates.
C13_ConsistentAppendsOneSuffix ==
    [][/\ op'.name = "make_more_consistent" =>
            IF Inconsistencies # {}
            THEN /\ op'.ret = "True"
                 /\ \E x \in Inconsistencies :
                        E' = Append(E, x[3]) /\ x[3] \notin Range(E)
                 /\ S' = S /\ SdotA' = SdotA
                 /\ AllRowsFilledNext
            ELSE /\ op'.ret = "None"
                 /\ UNCHANGED <<S, SdotA, E, S_rows, SdotA_rows, queried>>
                 /\ T_calls' = {}
       /\ Built => E' = E \/ (Len(E') = Len(E) + 1 /\ SubSeq(E', 1, Len(E)) = E)
       /\ Built' => E'[1] = <<>> /\ NoDuplicates(E')]_vars

\* a suffix was appended to an E that had two suffixes
C13_Witness ==
    /\ op = [name |-> "make_more_consistent", ret |-> "True"]
    /\ Len(E) >= 3

(***************************************************************************)
(* The effect of resolve_counterexample (C14).                             *)
(***************************************************************************)
\* ce[:i] for i in 1..len(ce)
NonEmptyPrefixes(c) == {SubSeq(c, 1, i) : i \in 1..Len(c)}

\* C14: after resolve_counterexample(ce) every non-empty prefix of ce, ce
\* included, is in S with a filled row, every one-symbol extension of such a
\* prefix is in S or in S.A with a filled row, S has kept the prefixes it
\* had and E is unchanged.
C14_ResolveAddsEveryPrefix ==
    [][op'.name = "resolve_counterexample" =>
        /\ \A p \in NonEmptyPrefixes(ce') :
            /\ p \in S' /\ FilledNext(S_rows', p)
            /\ \A x \in Extensions(p) :
                \/ x \in S' /\ FilledNext(S_rows', x)
                \/ x \in SdotA' /\ FilledNext(SdotA_rows', x)
        /\ S \subseteq S'
        /\ E' = E]_vars

\* a string of two symbols was resolved into a table with two suffixes, and
\* its prefix of one symbol was not in S before
C14_Witness ==
    /\ op.name = "resolve_counterexample"
    /\ Len(ce) >= 2
    /\ Len(E) >= 2
    /\ Cardinality(S) >= 4

(***************************************************************************)
(* S and S.A (C15).                                                        *)
(***************************************************************************)
\* C15: once the table is constructed, after every table operation, no
\* prefix is in both S and S.A and no prefix has a row in both S_rows and
\* SdotA_rows.
C15_SAndSdotADisjoint ==
    Built =>
        /\ S \cap SdotA = {}
        /\ DOMAIN S_rows \cap DOMAIN SdotA_rows = {}

\* a prefix was promoted after a string of two symbols was resolved
C15_Witness ==
    /\ op = [name |-> "make_more_closed", ret |-> "True"]
    /\ Len(ce) = 2 /\ ce \in S
    /\ Cardinality(S) >= 4

(***************************************************************************)
(* The rows (C16).                                                         *)
(***************************************************************************)
\* the row of p is filled with the teacher's answers for p + e, e in E
Filled(rows, p) ==
    /\ p \in DOMAIN rows
    /\ Len(rows[p]) = Len(E)
    /\ \A i \in 1..Len(E) : rows[p][i] = Teach(T, p \o E[i])

\* C16: once the table is constructed, after every table operation, the
\* keys of S_rows are S, the keys of SdotA_rows are S.A, and every row has
\* one cell for each suffix of E, which holds the teacher's answer for the
\* prefix followed by that suffix; so the rows a check compares have the
\* same length.
C16_RowsFilled ==
    Built =>
        /\ DOMAIN S_rows = S
        /\ DOMAIN SdotA_rows = SdotA
        /\ \A p \in S : Filled(S_rows, p)
        /\ \A p \in SdotA : Filled(SdotA_rows, p)

\* a string was resolved into a table that had gained a suffix
C16_Witness ==
    /\ op.name = "resolve_counterexample"
    /\ Len(E) >= 2
    /\ Cardinality(S) >= 4
    /\ Cardinality(SdotA) >= 4

(***************************************************************************)
(* The candidate and the cells of the table (C17).                         *)
(***************************************************************************)
\* the prefix a state stands for
Representative(q) == IF q = lambda THEN <<>> ELSE q

\* C17: the automaton the driver extracts agrees with the teacher on every
\* cell of the table, p + e for p in S or S.A and e in E, and on every string
\* of length 0 and 1, and a state is final exactly when the teacher accepts
\* the prefix that names it.
C17_CandidateAgreesOnCells ==
    JustExtracted =>
        /\ \A p \in S \cup SdotA : \A i \in 1..Len(E) : Agrees(dfa, p \o E[i])
        /\ \A s \in WordsBetween(0, 1, A) : Agrees(dfa, s)
        /\ \A q \in dfa.Q : q \in dfa.F <=> Teach(T, Representative(q))

\* a candidate of three states or more extracted from a table of three
\* suffixes or more
C17_Witness ==
    /\ JustExtracted
    /\ Len(E) >= 3
    /\ Cardinality(dfa.Q) >= 3
    /\ dfa.F # {} /\ dfa.F # dfa.Q

(***************************************************************************)
(* The shape of S, S.A and E (C18).                                        *)
(***************************************************************************)
\* s[i:] for every i
Suffixes(s) == {SubSeq(s, i, Len(s)) : i \in 1..(Len(s) + 1)}

\* C18: once the table is constructed, after every table operation, S holds
\* the empty prefix and every prefix of its members, S.A is the set of the
\* one-symbol extensions of the members of S that are not in S, and E holds
\* every suffix of its members.
C18_PrefixClosed ==
    Built =>
        /\ <<>> \in S
        /\ \A s \in S : NonEmptyPrefixes(s) \subseteq S
        /\ SdotA = UNION {Extensions(s) : s \in S} \ S
        /\ \A e \in Range(E) : Suffixes(e) \subseteq Range(E)

\* S holds a prefix of two symbols and E a suffix of two symbols
C18_Witness ==
    /\ Built
    /\ \E s \in S : Len(s) >= 2
    /\ \E e \in Range(E) : Len(e) >= 2

(***************************************************************************)
(* Progress of the driver from one candidate to the next (C19).            *)
(***************************************************************************)
\* the step is a call of find_counterexample that extracted a candidate
\* after the counterexample of the candidate before was resolved
NextCandidate ==
    /\ op'.name = "find_counterexample" /\ op'.ret # "raise"
    /\ dfa # NoDFA

\* C19: no table operation lowers the number of distinct rows of the S
\* prefixes; the candidate extracted after a counterexample was resolved has
\* more states than the candidate that produced the counterexample and
\* classifies it as the teacher does; every resolved counterexample stays in
\* S, every candidate agrees with the teacher on the members of S and a
\* string returned as a counterexample is not in S: no string is returned
\* twice.
C19_CandidatesGrow ==
    [][/\ Built => Cardinality(RowsOfS') >= Cardinality(RowsOfS) /\ S \subseteq S'
       /\ NextCandidate =>
            /\ Cardinality(dfa'.Q) > Cardinality(dfa.Q)
            /\ Agrees(dfa', ce)
       /\ op'.name = "resolve_counterexample" => ce \in S'
       /\ (op'.name = "find_counterexample" /\ op'.ret # "raise") =>
            /\ \A s \in S : Agrees(dfa', s)
            /\ op'.ret = "ce" => ce' \notin S /\ ce' # ce]_vars

\* a third candidate: it has four states or more and a counterexample too
C19_Witness ==
    /\ op = [name |-> "find_counterexample", ret |-> "ce"]
    /\ Cardinality(dfa.Q) >= 4
    /\ \E s \in S : Len(s) = 3

====
